---- MODULE Spec2Model ----
(***************************************************************************)
(* Model of bot.py: a Telegram bot that relays chat messages to the Gemini *)
(* text-generation endpoint.                                               *)
(*                                                                         *)
(* Text is modelled as a sequence of tokens (TLA+ strings): a fixed        *)
(* literal of the source is one token, variable text is a sequence of      *)
(* tokens.  String concatenation is \o, and "s in t" of Python is the      *)
(* contiguous-subsequence test Contains(t, s).                             *)
(*                                                                         *)
(* Three specifications:                                                   *)
(*   SpecGen  - generate_gemini_response alone, applied to a prompt, a     *)
(*              history and an upstream outcome drawn from bounded sets;   *)
(*   Spec     - the bot as main() assembles it: updates are dispatched to  *)
(*              the first matching handler, one update at a time.          *)
(*   SpecConc - the handlers with several updates in flight: a handler is  *)
(*              suspended at its generation call and others run meanwhile. *)
(***************************************************************************)
EXTENDS Integers, Sequences, FiniteSets, TLC

VARIABLES
    gen,            \* the generate_gemini_response call under SpecGen
    user_data,      \* context.user_data[user]["chat_history"], or KeyAbsent
    chat_data,      \* context.chat_data[chat]["recent_msgs"], or KeyAbsent
    conversations,  \* ConversationHandler state per (chat, user)
    cur,            \* the update processed last and what its handler did
    counts,         \* how many updates of each kind have arrived (bounds)
    sess,           \* history variable: each user's exchanges since /chat or /stop
    arrived,        \* history variable: the group text lines that arrived
    lists,          \* SpecConc: the list objects made for histories, by identity
    stored,         \* SpecConc: the list object under user_data[user]["chat_history"]
    inflight,       \* SpecConc: the handlers suspended at their generation call
    exch,           \* history variable: the exchanges started under SpecConc
    finished,       \* history variable: the exchanges completed, in completion order
    epoch           \* history variable: how many /chat and /stop were processed

genvars == <<gen>>
concvars == <<lists, stored, inflight, exch, finished, epoch>>
botvars == <<user_data, chat_data, conversations, cur, counts, sess, arrived,
             lists, stored, inflight, exch, finished, epoch>>
vars == <<gen, user_data, chat_data, conversations, cur, counts, sess, arrived,
          lists, stored, inflight, exch, finished, epoch>>

(***************************************************************************)
(* Bounds of the model.                                                    *)
(***************************************************************************)
MaxHistLen == 2     \* SpecGen: longest history handed to the client
MaxGroupMsgs == 11  \* Spec: updates arriving in the group chat
MaxPrivateMsgs == 6 \* Spec: updates arriving in the private chat
MaxSpecial == 1     \* Spec: special updates in a run (see Shapes)
MaxMixed == 2       \* Spec: updates per chat in a run that is not plain
MaxInFlight == 3    \* SpecConc: handlers suspended at the same time
MaxCommands == 3    \* SpecConc: /chat and /stop updates in a run

(***************************************************************************)
(* Text helpers.                                                           *)
(***************************************************************************)
\* Python's "needle in hay" for strings: a contiguous occurrence.
Contains(hay, needle) ==
    \E i \in 0..(Len(hay) - Len(needle)) :
        \A j \in 1..Len(needle) : hay[i + j] = needle[j]

\* str(n) for a non-negative integer, as it appears in an f-string.
DigitChars == <<"0", "1", "2", "3", "4", "5", "6", "7", "8", "9">>

RECURSIVE Digits(_)
Digits(n) ==
    IF n < 10 THEN <<DigitChars[n + 1]>>
    ELSE Digits(n \div 10) \o <<DigitChars[(n % 10) + 1]>>

\* seq[-n:] of Python: the last n elements (all of them when there are fewer).
LastN(seq, n) ==
    IF Len(seq) <= n THEN seq ELSE SubSeq(seq, Len(seq) - n + 1, Len(seq))

(***************************************************************************)
(* generate_gemini_response (bot.py 39-84).                                *)
(***************************************************************************)
PLACEHOLDER == <<"Sorry, I couldn't generate a response.">>
APOLOGY == <<"(warning sign) Sorry, I encountered an error. Please try again later.">>

Return(value) == [kind |-> "return", value |-> value]
Raise(exc) == [kind |-> "raise", exc |-> exc]

\* Lines 44-54: the history translated message by message, then the prompt.
BuildContents_AllUser(prompt, chat_history) ==
    [i \in 1..Len(chat_history) |->
        [role |-> "user", parts |-> <<[text |-> chat_history[i].content]>>]]
    \o <<[role |-> "user", parts |-> <<[text |-> prompt]>>]>>

BuildContents(prompt, chat_history) ==
    [i \in 1..Len(chat_history) |->
        IF chat_history[i].role = "user"
        THEN [role |-> "user", parts |-> <<[text |-> chat_history[i].content]>>]
        ELSE [role |-> "model", parts |-> <<[text |-> chat_history[i].content]>>]]
    \o <<[role |-> "user", parts |-> <<[text |-> prompt]>>]>>

\* Lines 56-62: the request body.
RequestData(prompt, chat_history) ==
    [contents |-> BuildContents(prompt, chat_history),
     generationConfig |-> [temperature |-> "0.7", maxOutputTokens |-> 500]]

\* Line 75: 'candidates' in result and result['candidates'].
HasCandidates_KeyOnly(result) == "candidates" \in DOMAIN result

HasCandidates(result) ==
    "candidates" \in DOMAIN result /\ result.candidates # <<>>

\* Line 76: result['candidates'][0]['content']['parts'][0]['text']; each
\* subscript raises KeyError or IndexError when the key or element is missing.
FirstCandidateText_Stripped(result) ==
    IF result.candidates = <<>> THEN Raise("IndexError")
    ELSE LET c == result.candidates[1] IN
         IF "content" \notin DOMAIN c THEN Raise("KeyError")
         ELSE IF "parts" \notin DOMAIN c.content THEN Raise("KeyError")
         ELSE IF c.content.parts = <<>> THEN Raise("IndexError")
         ELSE IF "text" \notin DOMAIN c.content.parts[1] THEN Raise("KeyError")
         ELSE LET t == c.content.parts[1].text IN
              IF Len(t) > 0 /\ t[Len(t)] = " "
              THEN Return(SubSeq(t, 1, Len(t) - 1))
              ELSE Return(t)

FirstCandidateText(result) ==
    IF result.candidates = <<>> THEN Raise("IndexError")
    ELSE LET c == result.candidates[1] IN
         IF "content" \notin DOMAIN c THEN Raise("KeyError")
         ELSE IF "parts" \notin DOMAIN c.content THEN Raise("KeyError")
         ELSE IF c.content.parts = <<>> THEN Raise("IndexError")
         ELSE IF "text" \notin DOMAIN c.content.parts[1] THEN Raise("KeyError")
         ELSE Return(c.content.parts[1].text)

\* Line 80: the f-string with the status code and the raw body.
ApiErrorMessage_NoBody(status_code, text) ==
    <<"(warning sign) API Error (Status: ">> \o Digits(status_code) \o <<")">>

ApiErrorMessage(status_code, text) ==
    <<"(warning sign) API Error (Status: ">> \o Digits(status_code)
        \o <<"): ">> \o text

\* Lines 65-80: the body of the try block, given what the POST did.
\* upstream.kind = "exception": client.post raised (transport failure, timeout).
\* upstream.kind = "response": a response with status_code, text (raw body)
\* and json (what response.json() does: the parsed value, or a raise).
TryBlock(upstream) ==
    IF upstream.kind = "exception" THEN Raise(upstream.exc)
    ELSE IF upstream.status_code = 200
    THEN IF ~upstream.json.ok THEN Raise("JSONDecodeError")
         ELSE IF HasCandidates(upstream.json.value)
              THEN FirstCandidateText(upstream.json.value)
              ELSE Return(PLACEHOLDER)
    ELSE Return(ApiErrorMessage(upstream.status_code, upstream.text))

\* Lines 82-84: except Exception -> the fixed apology.
ExceptClause_Reraise(outcome) == outcome

ExceptClause(outcome) ==
    IF outcome.kind = "raise" THEN Return(APOLOGY) ELSE outcome

\* Lines 64-84: what the call gives its caller.
GenerateResult(upstream) == ExceptClause(TryBlock(upstream))

(***************************************************************************)
(* Inputs of SpecGen.                                                      *)
(***************************************************************************)
Roles == {"user", "model"}
GenTexts == {<<"hi">>, <<" ", "ok", " ">>}
Turns == [role : Roles, content : GenTexts]

RECURSIVE SeqsUpTo(_, _)
SeqsUpTo(S, n) ==
    IF n = 0 THEN {<<>>}
    ELSE LET shorter == SeqsUpTo(S, n - 1) IN
         shorter \cup {Append(s, x) : s \in {t \in shorter : Len(t) = n - 1}, x \in S}

Candidate(text) == [content |-> [parts |-> <<[text |-> text]>>]]

Parsed(value) == [ok |-> TRUE, value |-> value]
Unparsable == [ok |-> FALSE]

Response(shape, status_code, text, json) ==
    [kind |-> "response", shape |-> shape, status_code |-> status_code,
     text |-> text, json |-> json]

\* The upstream outcomes.  "shape" names the case for the properties; the
\* client never reads it.
Upstreams ==
    { [kind |-> "exception", shape |-> "transport", exc |-> "ConnectError"],
      [kind |-> "exception", shape |-> "timeout", exc |-> "ReadTimeout"],
      Response("non200", 404, <<"n", "o", "p", "e">>, Unparsable),
      Response("non200", 503, <<>>, Unparsable),
      Response("non200", 429, <<"{json}">>,
               Parsed([candidates |-> <<Candidate(<<"hi">>)>>])),
      Response("unparsable", 200, <<"<", "html", ">">>, Unparsable),
      Response("no_key", 200, <<"{json}">>, Parsed([promptFeedback |-> "SAFETY"])),
      Response("empty", 200, <<"{json}">>, Parsed([candidates |-> <<>>])),
      Response("no_content", 200, <<"{json}">>,
               Parsed([candidates |-> <<[finishReason |-> "SAFETY"]>>])),
      Response("no_parts", 200, <<"{json}">>,
               Parsed([candidates |-> <<[content |-> [role |-> "model"]]>>])),
      Response("empty_parts", 200, <<"{json}">>,
               Parsed([candidates |-> <<[content |-> [parts |-> <<>>]]>>])),
      Response("no_text", 200, <<"{json}">>,
               Parsed([candidates |->
                   <<[content |-> [parts |-> <<[inlineData |-> "blob"]>>]]>>])),
      Response("text", 200, <<"{json}">>,
               Parsed([candidates |-> <<Candidate(<<" ", "ok", " ">>)>>])),
      Response("text", 200, <<"{json}">>,
               Parsed([candidates |-> <<Candidate(<<>>)>>])),
      Response("text", 200, <<"{json}">>,
               Parsed([candidates |->
                   <<Candidate(<<"hi">>), Candidate(<<" ", "ok", " ">>)>>])) }

NoResult == [kind |-> "none"]

GenIdle ==
    [pc |-> "idle", prompt |-> <<>>, chat_history |-> <<>>,
     upstream |-> [kind |-> "none"], data |-> [contents |-> <<>>],
     result |-> NoResult]

(***************************************************************************)
(* The bot's state: chats, users, the per-user and per-chat context.       *)
(***************************************************************************)
CHATTING == 1
END == -1           \* ConversationHandler.END: the conversation key is dropped

Users == {"alice", "bob"}
Chats == {"dm", "grp"}
ChatType(chat) == IF chat = "dm" THEN "private" ELSE "group"
FirstName(user) == IF user = "alice" THEN "Alice" ELSE "Bob"

\* A key of a context dict: absent, or present with a value.
KeyAbsent == [present |-> FALSE, value |-> <<>>]
KeyValue(v) == [present |-> TRUE, value |-> v]

\* dict.get(key, []) / dict.setdefault(key, [])
GetOrEmpty(entry) == IF entry.present THEN entry.value ELSE <<>>

\* Line 132: the list a session starts with.
NewHistory == <<>>

\* if key in dict: del dict[key]
DelIfPresent_Keep(entry) == entry

DelIfPresent(entry) == IF entry.present THEN KeyAbsent ELSE entry

Turn(role, content) == [role |-> role, content |-> content]

(***************************************************************************)
(* Inbound messages.  A message is a command token (or none), a mention    *)
(* token (or none) and a body.                                             *)
(***************************************************************************)
MentionBot == "@genz_mediator_bot"         \* f"@{BOT_USERNAME}", lower-cased
MentionBotUpper == "@GENZ_Mediator_Bot"
MentionOther == "@carol"

\* message.text
Text(msg) ==
    (IF msg.command = "" THEN <<>> ELSE <<msg.command>>)
    \o (IF msg.mention = "" THEN <<>> ELSE <<msg.mention>>)
    \o msg.body

\* str.lower(), token by token.
LowerToken(tok) == IF tok = MentionBotUpper THEN MentionBot ELSE tok
Lower(text) == [i \in 1..Len(text) |-> LowerToken(text[i])]

\* f"{message.from_user.first_name}: {text}"
Line(msg) == <<FirstName(msg.user), ": ">> \o Text(msg)

\* "\n".join(lines)
RECURSIVE Join(_)
Join(lines) ==
    IF lines = <<>> THEN <<>>
    ELSE IF Len(lines) = 1 THEN lines[1]
    ELSE lines[1] \o <<"\n">> \o Join(Tail(lines))

(***************************************************************************)
(* main (bot.py 223-253): the handlers in registration order, all in the   *)
(* default group, so an update goes to the first handler that accepts it.  *)
(***************************************************************************)
FilterCommand(msg) == msg.command # ""
FilterText(msg) == Text(msg) # <<>>
FilterGroups(msg) == ChatType(msg.chat) = "group"
FilterEntityMention(msg) == msg.mention # ""

\* ConversationHandler (230-238): entry points when the key has no state,
\* else the state's handlers and then the fallbacks.
ConversationCallback(msg, convs) ==
    IF convs[<<msg.chat, msg.user>>] = END
    THEN IF msg.command = "/chat" THEN "chat_with_ai" ELSE "none"
    ELSE IF FilterText(msg) /\ ~FilterCommand(msg) THEN "handle_ai_response"
    ELSE IF msg.command = "/stop" THEN "stop_chat"
    ELSE "none"

Handlers == <<"start", "help", "conversation", "cache", "mention">>

\* The callback a registered handler would run for msg, "none" if it does
\* not accept the update.
HandlerCallback(h, msg, convs) ==
    CASE h = "start" -> IF msg.command = "/start" THEN "start" ELSE "none"
      [] h = "help" -> IF msg.command = "/help" THEN "help_command" ELSE "none"
      [] h = "conversation" -> ConversationCallback(msg, convs)
      [] h = "cache" ->
            IF FilterGroups(msg) /\ FilterText(msg) /\ ~FilterCommand(msg)
            THEN "cache_messages" ELSE "none"
      [] h = "mention" ->
            IF FilterGroups(msg) /\ FilterText(msg) /\ FilterEntityMention(msg)
            THEN "handle_group_mention" ELSE "none"

\* Application.process_update: the first accepting handler of the group.
Dispatch(msg, convs) ==
    LET accepting == {i \in 1..Len(Handlers) :
                         HandlerCallback(Handlers[i], msg, convs) # "none"}
    IN  IF accepting = {} THEN "none"
        ELSE HandlerCallback(
                 Handlers[CHOOSE i \in accepting : \A j \in accepting : i <= j],
                 msg, convs)

(***************************************************************************)
(* What a handler does with one update.                                    *)
(***************************************************************************)
NoMsg ==
    [chat |-> "", user |-> "", message_id |-> 0, command |-> "",
     mention |-> "", edited |-> FALSE, body |-> <<>>]

\* cur: the update, the callback that ran, the generation requests it
\* issued, the messages it sent, and whether an exception left the callback.
Outcome(msg, handler, requests, replies, escaped) ==
    [msg |-> msg, handler |-> handler, requests |-> requests,
     replies |-> replies, escaped |-> escaped]

\* A sent message: reply_to is <<id>> when reply_to_message_id is given.
Sent(text, reply_to) == [text |-> text, reply_to |-> reply_to]

\* One generate_gemini_response call as its caller sees it.
Request(prompt, chat_history, upstream) ==
    [prompt |-> prompt, chat_history |-> chat_history, upstream |-> upstream,
     data |-> RequestData(prompt, chat_history),
     result |-> GenerateResult(upstream)]

WelcomeMessage(user) ==
    <<"Hi ", FirstName(user), "! I'm your AI Mediator Bot powered by Gemini Flash.">>
HelpText == <<"AI Mediator Bot Help">>
ChatStarted == <<"You're now chatting with Gemini Flash AI. Send me any message!">>
ChatEnded == <<"Chat ended. Start again with /chat!">>
ErrorOccurred == <<"(warning sign) An error occurred. Please try again.">>
GroupError == <<"(warning sign) Error processing request.">>

\* Lines 117-126: the analysis prompt.
AnalysisTemplate ==
    <<"You are an unbiased, emotionally intelligent AI mediator. ",
      "Given these group messages, provide:\n",
      "1. A short, neutral summary\n",
      "2. An unbiased suggestion\n",
      "Format strictly as:\n",
      "Summary:", " <summary>\n",
      "Suggestion:", " <suggestion>\n",
      "Messages:\n">>

AnalysisPrompt_Oldest(messages) ==
    AnalysisTemplate \o Join(IF Len(messages) <= 10 THEN messages
                             ELSE SubSeq(messages, 1, 10))

AnalysisPrompt(messages) == AnalysisTemplate \o Join(LastN(messages, 10))

\* Lines 167-169: the two appends and the slice that is stored.
UpdatedHistory_KeepOldest(chat_history, user_message, response) ==
    LET h == Append(Append(chat_history, Turn("user", user_message)),
                    Turn("model", response))
    IN  IF Len(h) <= 6 THEN h ELSE SubSeq(h, 1, 6)

UpdatedHistory_OddCap(chat_history, user_message, response) ==
    LastN(Append(Append(chat_history, Turn("user", user_message)),
                 Turn("model", response)), 5)

UpdatedHistory_Cap8(chat_history, user_message, response) ==
    LastN(Append(Append(chat_history, Turn("user", user_message)),
                 Turn("model", response)), 8)

UpdatedHistory_NoTrim(chat_history, user_message, response) ==
    Append(Append(chat_history, Turn("user", user_message)),
           Turn("model", response))

UpdatedHistory_UserOnly(chat_history, user_message, response) ==
    LastN(Append(chat_history, Turn("user", user_message)), 6)

UpdatedHistory(chat_history, user_message, response) ==
    LastN(Append(Append(chat_history, Turn("user", user_message)),
                 Turn("model", response)), 6)

\* Lines 184-186 and 203-205: the append and the slice that is stored.
UpdatedLog_KeepOldest(recent_msgs, line) ==
    LET l == Append(recent_msgs, line)
    IN  IF Len(l) <= 10 THEN l ELSE SubSeq(l, 1, 10)

UpdatedLog(recent_msgs, line) == LastN(Append(recent_msgs, line), 10)

(***************************************************************************)
(* The updates that arrive.  A message's body numbers it within its chat,  *)
(* so that every line and every turn is distinct.                          *)
(*                                                                         *)
(* Scope of the exploration.  A run is made of plain updates (text by      *)
(* alice, and /chat and /stop in her private chat, with every send and the *)
(* upstream succeeding) and of at most MaxSpecial special ones (any other  *)
(* shape, a failing send, a failing upstream).  A chat's sequence grows    *)
(* past MaxMixed updates only while the run is plain and confined to that  *)
(* chat; runs that mix the chats or hold special updates stay short.       *)
(***************************************************************************)
Keys == Chats \X Users

Shape(chat, user, command, mention) ==
    [chat |-> chat, user |-> user, command |-> command, mention |-> mention,
     edited |-> FALSE]

\* An edited message: the update carries it as edited_message, so that
\* update.message is None while update.effective_message is the message.
EditedText == [Shape("dm", "alice", "", "") EXCEPT !.edited = TRUE]

PlainShapes ==
    { Shape("dm", "alice", c, "") : c \in {"", "/chat", "/stop"} }
    \cup {Shape("grp", "alice", "", "")}

Shapes ==
    PlainShapes \cup
    { Shape("dm", "alice", c, "") : c \in {"/start", "/help"} }
    \cup
    { Shape("grp", "alice", c, m) :
        c \in {"", "/chat", "/stop", "/ask"},
        m \in {"", MentionBot, MentionBotUpper, MentionOther} }
    \cup
    { Shape("grp", "bob", "", ""), Shape("grp", "bob", "", MentionBot) }
    \cup {EditedText}

Arrived(chat) == IF chat = "grp" THEN counts.grp ELSE counts.dm

Arrival(shape) ==
    [chat |-> shape.chat, user |-> shape.user,
     message_id |-> Arrived(shape.chat) + 1,
     command |-> shape.command, mention |-> shape.mention,
     edited |-> shape.edited,
     body |-> IF shape.command = ""
              THEN <<"m", ToString(Arrived(shape.chat) + 1)>> ELSE <<>>]

ShapeCost(shape) == IF shape \in PlainShapes THEN 0 ELSE 1

CanArrive(shape, extra) ==
    /\ counts.special + ShapeCost(shape) + extra <= MaxSpecial
    /\ shape.chat = "grp" =>
          /\ counts.grp < MaxGroupMsgs
          /\ counts.dm <= MaxMixed
          /\ counts.grp < MaxMixed \/ (counts.dm = 0 /\ counts.special = 0)
    /\ shape.chat = "dm" =>
          /\ counts.dm < MaxPrivateMsgs
          /\ counts.grp <= MaxMixed
          /\ counts.dm < MaxMixed \/ (counts.grp = 0 /\ counts.special = 0)

Arrive(shape, extra) ==
    /\ counts' = [grp |-> counts.grp + (IF shape.chat = "grp" THEN 1 ELSE 0),
                  dm |-> counts.dm + (IF shape.chat = "dm" THEN 1 ELSE 0),
                  special |-> counts.special + ShapeCost(shape) + extra]
    /\ arrived' = IF shape.chat = "grp" /\ shape.command = ""
                  THEN Append(arrived, Line(Arrival(shape)))
                  ELSE arrived

\* The awaited Telegram calls of a handler: TRUE when the call succeeds,
\* FALSE when it raises.
AllSent == [typing |-> TRUE, reply |-> TRUE, error_reply |-> TRUE]
SendOutcomes ==
    { AllSent,
      [typing |-> FALSE, reply |-> TRUE, error_reply |-> TRUE],
      [typing |-> FALSE, reply |-> TRUE, error_reply |-> FALSE],
      [typing |-> TRUE, reply |-> FALSE, error_reply |-> TRUE],
      [typing |-> TRUE, reply |-> FALSE, error_reply |-> FALSE] }
ReplyOutcomes == {AllSent, [typing |-> TRUE, reply |-> FALSE, error_reply |-> TRUE]}

\* What the generation endpoint does for one call.
UpstreamOk(text) ==
    Response("text", 200, <<"{json}">>, Parsed([candidates |-> <<Candidate(text)>>]))
UpstreamDown == [kind |-> "exception", shape |-> "transport", exc |-> "ConnectError"]
UpstreamRefuses == Response("non200", 503, <<"b", "u", "s", "y">>, Unparsable)
BotUpstreams(text) == {UpstreamOk(text), UpstreamDown, UpstreamRefuses}

ExtraCost(sends, upstream) ==
    (IF sends = AllSent THEN 0 ELSE 1) + (IF upstream.shape = "text" THEN 0 ELSE 1)

\* ConversationHandler: the state a callback returns is stored under the
\* key (END drops it); a callback that raises leaves the state as it was.
AfterCallback_EndOnRaise(convs, key, escaped, returned) ==
    [convs EXCEPT ![key] = IF escaped THEN END ELSE returned]

AfterCallback(convs, key, escaped, returned) ==
    IF escaped THEN convs ELSE [convs EXCEPT ![key] = returned]

\* The except branch of a handler (175-178, 210-212): the error reply, and
\* the exception that leaves the handler when that reply raises too.
ErrorBranch(msg, handler, requests, text, sends) ==
    Outcome(msg, handler, requests,
            IF sends.error_reply THEN <<Sent(text, <<>>)>> ELSE <<>>,
            ~sends.error_reply)

\* History variable, per user: active - the user's latest /chat or /stop
\* was a /chat; pairs - the (message, response) exchanges made for the user
\* since then; ended - the exchanges made before it.
NewSession(s, active) ==
    [active |-> active, pairs |-> <<>>, ended |-> s.ended + Len(s.pairs)]

BotInit ==
    /\ user_data = [u \in Users |-> KeyAbsent]
    /\ chat_data = [c \in Chats |-> KeyAbsent]
    /\ conversations = [k \in Keys |-> END]
    /\ cur = Outcome(NoMsg, "none", <<>>, <<>>, FALSE)
    /\ counts = [grp |-> 0, dm |-> 0, special |-> 0]
    /\ sess = [u \in Users |-> [active |-> FALSE, pairs |-> <<>>, ended |-> 0]]
    /\ arrived = <<>>
    /\ lists = <<>>
    /\ stored = [u \in Users |-> 0]
    /\ inflight = {}
    /\ exch = <<>>
    /\ finished = <<>>
    /\ epoch = 0

Init == gen = GenIdle /\ BotInit

(***************************************************************************)
(* The handlers, one action each: the whole callback for one update.       *)
(***************************************************************************)
\* start (86-97)
Start ==
    \E shape \in Shapes :
      /\ Dispatch(Arrival(shape), conversations) = "start"
      /\ \E sends \in ReplyOutcomes :
        LET msg == Arrival(shape) IN
        /\ CanArrive(shape, ExtraCost(sends, UpstreamOk(<<>>)))
        /\ cur' = Outcome(msg, "start", <<>>,
                          IF sends.reply
                          THEN <<Sent(WelcomeMessage(msg.user), <<>>)>> ELSE <<>>,
                          ~sends.reply)
        /\ Arrive(shape, ExtraCost(sends, UpstreamOk(<<>>)))
        /\ UNCHANGED <<concvars, gen, user_data, chat_data, conversations, sess>>

\* help_command (99-113)
HelpCommand ==
    \E shape \in Shapes :
      /\ Dispatch(Arrival(shape), conversations) = "help_command"
      /\ \E sends \in ReplyOutcomes :
        LET msg == Arrival(shape) IN
        /\ CanArrive(shape, ExtraCost(sends, UpstreamOk(<<>>)))
        /\ cur' = Outcome(msg, "help_command", <<>>,
                          IF sends.reply THEN <<Sent(HelpText, <<>>)>> ELSE <<>>,
                          ~sends.reply)
        /\ Arrive(shape, ExtraCost(sends, UpstreamOk(<<>>)))
        /\ UNCHANGED <<concvars, gen, user_data, chat_data, conversations, sess>>

\* chat_with_ai (130-138)
ChatWithAi ==
    \E shape \in Shapes :
      /\ Dispatch(Arrival(shape), conversations) = "chat_with_ai"
      /\ \E sends \in ReplyOutcomes :
        LET msg == Arrival(shape)
            key == <<msg.chat, msg.user>>
        IN
        /\ CanArrive(shape, ExtraCost(sends, UpstreamOk(<<>>)))
        /\ user_data' = [user_data EXCEPT ![msg.user] = KeyValue(NewHistory)]
        /\ cur' = Outcome(msg, "chat_with_ai", <<>>,
                          IF sends.reply THEN <<Sent(ChatStarted, <<>>)>> ELSE <<>>,
                          ~sends.reply)
        /\ conversations' = AfterCallback(conversations, key, ~sends.reply, CHATTING)
        /\ sess' = [sess EXCEPT ![msg.user] = NewSession(@, TRUE)]
        /\ Arrive(shape, ExtraCost(sends, UpstreamOk(<<>>)))
        /\ UNCHANGED <<concvars, gen, chat_data>>

\* stop_chat (140-148)
StopChat ==
    \E shape \in Shapes :
      /\ Dispatch(Arrival(shape), conversations) = "stop_chat"
      /\ \E sends \in ReplyOutcomes :
        LET msg == Arrival(shape)
            key == <<msg.chat, msg.user>>
        IN
        /\ CanArrive(shape, ExtraCost(sends, UpstreamOk(<<>>)))
        /\ user_data' = [user_data EXCEPT ![msg.user] = DelIfPresent(@)]
        /\ cur' = Outcome(msg, "stop_chat", <<>>,
                          IF sends.reply THEN <<Sent(ChatEnded, <<>>)>> ELSE <<>>,
                          ~sends.reply)
        /\ conversations' = AfterCallback(conversations, key, ~sends.reply, END)
        /\ sess' = [sess EXCEPT ![msg.user] = NewSession(@, FALSE)]
        /\ Arrive(shape, ExtraCost(sends, UpstreamOk(<<>>)))
        /\ UNCHANGED <<concvars, gen, chat_data>>

\* handle_ai_response (150-178)
HandleAiResponse ==
    \E shape \in Shapes :
      /\ Dispatch(Arrival(shape), conversations) = "handle_ai_response"
      /\ \E sends \in SendOutcomes,
            upstream \in BotUpstreams(<<"re">> \o Arrival(shape).body) :
        LET msg == Arrival(shape)
            key == <<msg.chat, msg.user>>
            user_message == Text(msg)
            chat_history == GetOrEmpty(user_data[msg.user])
            request == Request(user_message, chat_history, upstream)
            generated == ~msg.edited /\ sends.typing /\ request.result.kind = "return"
            response == request.result.value
        IN
        /\ CanArrive(shape, ExtraCost(sends, upstream))
        /\ ~sends.typing => upstream = UpstreamOk(<<"re">> \o msg.body)
        /\ msg.edited => sends = AllSent /\ upstream = UpstreamOk(<<"re">> \o msg.body)
        /\ user_data' =
              IF generated
              THEN [user_data EXCEPT ![msg.user] =
                       KeyValue(UpdatedHistory(chat_history, user_message, response))]
              ELSE user_data
        /\ cur' =
              IF msg.edited
              THEN \* update.message is None: line 153 raises, and so does line 177
                   Outcome(msg, "handle_ai_response", <<>>, <<>>, TRUE)
              ELSE IF ~sends.typing
              THEN ErrorBranch(msg, "handle_ai_response", <<>>, ErrorOccurred, sends)
              ELSE IF ~generated \/ ~sends.reply
              THEN ErrorBranch(msg, "handle_ai_response", <<request>>,
                               ErrorOccurred, sends)
              ELSE Outcome(msg, "handle_ai_response", <<request>>,
                           <<Sent(response, <<>>)>>, FALSE)
        /\ conversations' = AfterCallback(conversations, key, cur'.escaped, CHATTING)
        /\ sess' = IF generated
                   THEN [sess EXCEPT ![msg.user].pairs =
                            Append(@, <<user_message, response>>)]
                   ELSE sess
        /\ Arrive(shape, ExtraCost(sends, upstream))
        /\ UNCHANGED <<concvars, gen, chat_data>>

\* cache_messages (180-186)
CacheMessages ==
    \E shape \in Shapes :
        LET msg == Arrival(shape) IN
        /\ CanArrive(shape, 0)
        /\ Dispatch(msg, conversations) = "cache_messages"
        /\ chat_data' = [chat_data EXCEPT ![msg.chat] =
                            KeyValue(UpdatedLog(GetOrEmpty(@), Line(msg)))]
        /\ cur' = Outcome(msg, "cache_messages", <<>>, <<>>, FALSE)
        /\ Arrive(shape, 0)
        /\ UNCHANGED <<concvars, gen, user_data, conversations, sess>>

\* handle_group_mention (188-212), with analyze_conversation (115-128)
HandleGroupMention ==
    \E shape \in Shapes :
      /\ Dispatch(Arrival(shape), conversations) = "handle_group_mention"
      /\ \E sends \in SendOutcomes,
            upstream \in BotUpstreams(<<"Summary: s\nSuggestion: t">>) :
        LET msg == Arrival(shape)
            addressed == Contains(Lower(Text(msg)), <<MentionBot>>)
            chat_history == Append(GetOrEmpty(chat_data[msg.chat]), Line(msg))
            request == Request(AnalysisPrompt(chat_history), <<>>, upstream)
            analysed == addressed /\ sends.typing
        IN
        /\ CanArrive(shape, ExtraCost(sends, upstream))
        /\ ~analysed => upstream = UpstreamOk(<<"Summary: s\nSuggestion: t">>)
        /\ ~addressed => sends = AllSent
        /\ chat_data' =
              IF analysed
              THEN [chat_data EXCEPT ![msg.chat] =
                       KeyValue(UpdatedLog(GetOrEmpty(@), Line(msg)))]
              ELSE chat_data
        /\ cur' =
              IF ~addressed
              THEN Outcome(msg, "handle_group_mention", <<>>, <<>>, FALSE)
              ELSE IF ~sends.typing
              THEN ErrorBranch(msg, "handle_group_mention", <<>>, GroupError, sends)
              ELSE IF request.result.kind = "raise" \/ ~sends.reply
              THEN ErrorBranch(msg, "handle_group_mention", <<request>>,
                               GroupError, sends)
              ELSE Outcome(msg, "handle_group_mention", <<request>>,
                           <<Sent(request.result.value, <<msg.message_id>>)>>, FALSE)
        /\ Arrive(shape, ExtraCost(sends, upstream))
        /\ UNCHANGED <<concvars, gen, user_data, conversations, sess>>

\* An update no handler accepts is dropped.
Unhandled ==
    \E shape \in Shapes :
        LET msg == Arrival(shape) IN
        /\ CanArrive(shape, 0)
        /\ Dispatch(msg, conversations) = "none"
        /\ cur' = Outcome(msg, "none", <<>>, <<>>, FALSE)
        /\ Arrive(shape, 0)
        /\ UNCHANGED <<concvars, gen, user_data, chat_data, conversations, sess>>

Next ==
    \/ Start
    \/ HelpCommand
    \/ CacheMessages
    \/ HandleGroupMention
    \/ ChatWithAi
    \/ StopChat
    \/ HandleAiResponse
    \/ Unhandled

Spec == Init /\ [][Next]_vars

(***************************************************************************)
(* SpecGen: one call of generate_gemini_response.                          *)
(***************************************************************************)
GenInit ==
    /\ gen \in [pc : {"called"}, prompt : GenTexts,
                chat_history : SeqsUpTo(Turns, MaxHistLen),
                upstream : Upstreams, data : {[contents |-> <<>>]},
                result : {NoResult}]
    /\ BotInit

\* Lines 41-62: the request is built before the try block.
GenBuild ==
    /\ gen.pc = "called"
    /\ gen' = [gen EXCEPT !.pc = "posting",
                          !.data = RequestData(gen.prompt, gen.chat_history)]
    /\ UNCHANGED botvars

\* Lines 64-84: the POST and the classification of what came back.
GenPost ==
    /\ gen.pc = "posting"
    /\ gen' = [gen EXCEPT !.pc = "done", !.result = GenerateResult(gen.upstream)]
    /\ UNCHANGED botvars

GenNext == GenBuild \/ GenPost

SpecGen == GenInit /\ [][GenNext]_vars

(***************************************************************************)
(* SpecConc: several updates in flight.  A handler runs without            *)
(* interruption up to its generation call (lines 164, 207), is suspended   *)
(* there, and runs to its end when resumed; /chat, /stop and               *)
(* cache_messages make no generation call.  Every Telegram call and every  *)
(* generation succeeds.  A history is a list object: user_data holds a     *)
(* reference to it, and so does every handler that read it at line 161;    *)
(* the appends of lines 167-168 change the object, line 169 stores a new   *)
(* one.  A run has updates of one chat only.                               *)
(***************************************************************************)
ConcShapes ==
    { Shape("dm", "alice", c, "") : c \in {"", "/chat", "/stop"} }
    \cup {Shape("grp", "alice", "", ""), Shape("grp", "alice", "/ask", MentionBot)}

ConcCanArrive(shape) ==
    /\ shape.chat = "dm" =>
          /\ counts.grp = 0
          /\ counts.dm < MaxPrivateMsgs
          /\ shape.command # "" => counts.special < MaxCommands
    /\ shape.chat = "grp" =>
          /\ counts.dm = 0
          /\ counts.grp < MaxGroupMsgs
          /\ shape.command # "" => counts.special < MaxSpecial

ConcCost(shape) == IF shape.command # "" THEN 1 ELSE 0

\* Line 161: user_data.get("chat_history", []) gives the stored list object
\* itself, or a new empty list when the key is absent.
HistoryObject_Copy(stored_id, fresh_id) == fresh_id

HistoryObject(stored_id, fresh_id) ==
    IF stored_id # 0 THEN stored_id ELSE fresh_id

\* A suspended handler: its update, the list object it holds, its request.
Suspended(handler, msg, i, ref, request) ==
    [handler |-> handler, msg |-> msg, i |-> i, ref |-> ref, request |-> request]

\* chat_with_ai (130-138): a new empty list is stored.
ConcChat ==
    \E shape \in ConcShapes :
        LET msg == Arrival(shape)
            key == <<msg.chat, msg.user>>
        IN
        /\ ConcCanArrive(shape)
        /\ Dispatch(msg, conversations) = "chat_with_ai"
        /\ lists' = Append(lists, NewHistory)
        /\ stored' = [stored EXCEPT ![msg.user] = Len(lists) + 1]
        /\ conversations' = AfterCallback(conversations, key, FALSE, CHATTING)
        /\ cur' = Outcome(msg, "chat_with_ai", <<>>, <<Sent(ChatStarted, <<>>)>>, FALSE)
        /\ sess' = [sess EXCEPT ![msg.user] = NewSession(@, TRUE)]
        /\ epoch' = epoch + 1
        /\ Arrive(shape, ConcCost(shape))
        /\ UNCHANGED <<gen, user_data, chat_data, inflight, exch, finished>>

\* stop_chat (140-148): the key is deleted.
ConcStop ==
    \E shape \in ConcShapes :
        LET msg == Arrival(shape)
            key == <<msg.chat, msg.user>>
        IN
        /\ ConcCanArrive(shape)
        /\ Dispatch(msg, conversations) = "stop_chat"
        /\ stored' = [stored EXCEPT ![msg.user] = 0]
        /\ conversations' = AfterCallback(conversations, key, FALSE, END)
        /\ cur' = Outcome(msg, "stop_chat", <<>>, <<Sent(ChatEnded, <<>>)>>, FALSE)
        /\ sess' = [sess EXCEPT ![msg.user] = NewSession(@, FALSE)]
        /\ epoch' = epoch + 1
        /\ Arrive(shape, ConcCost(shape))
        /\ UNCHANGED <<gen, user_data, chat_data, lists, inflight, exch, finished>>

\* handle_ai_response, lines 153-164: up to the generation call.
ConcExchangeBegin ==
    \E shape \in ConcShapes :
        LET msg == Arrival(shape)
            fresh == Len(lists) + 1
            ref == HistoryObject(stored[msg.user], fresh)
            content == IF stored[msg.user] # 0 THEN lists[stored[msg.user]] ELSE <<>>
            request == Request(Text(msg), content, UpstreamOk(<<"re">> \o msg.body))
        IN
        /\ ConcCanArrive(shape)
        /\ Cardinality(inflight) < MaxInFlight
        /\ Dispatch(msg, conversations) = "handle_ai_response"
        /\ lists' = IF ref = fresh THEN Append(lists, content) ELSE lists
        /\ inflight' = inflight \cup
              {Suspended("handle_ai_response", msg, Len(exch) + 1, ref, request)}
        /\ exch' = Append(exch, [msg |-> msg, ref |-> ref, epoch |-> epoch])
        /\ cur' = Outcome(msg, "handle_ai_response", <<request>>, <<>>, FALSE)
        /\ Arrive(shape, ConcCost(shape))
        /\ UNCHANGED <<gen, user_data, chat_data, conversations, sess, stored,
                       finished, epoch>>

\* handle_ai_response, lines 164-173: from the response to the return.
ConcExchangeEnd ==
    \E f \in inflight :
        LET key == <<f.msg.chat, f.msg.user>>
            user_message == Text(f.msg)
            response == f.request.result.value
        IN
        /\ f.handler = "handle_ai_response"
        /\ lists' = Append([lists EXCEPT ![f.ref] =
                               Append(Append(@, Turn("user", user_message)),
                                      Turn("model", response))],
                           UpdatedHistory(lists[f.ref], user_message, response))
        /\ stored' = [stored EXCEPT ![f.msg.user] = Len(lists) + 1]
        /\ inflight' = inflight \ {f}
        /\ conversations' = AfterCallback(conversations, key, FALSE, CHATTING)
        /\ cur' = Outcome(f.msg, "handle_ai_response", <<f.request>>,
                          <<Sent(response, <<>>)>>, FALSE)
        /\ sess' = [sess EXCEPT ![f.msg.user].pairs =
                       Append(@, <<user_message, response>>)]
        /\ finished' = Append(finished, [i |-> f.i, at |-> epoch])
        /\ UNCHANGED <<gen, user_data, chat_data, counts, arrived, exch, epoch>>

\* cache_messages (180-186): no suspension.
ConcCache ==
    \E shape \in ConcShapes :
        LET msg == Arrival(shape) IN
        /\ ConcCanArrive(shape)
        /\ Dispatch(msg, conversations) = "cache_messages"
        /\ chat_data' = [chat_data EXCEPT ![msg.chat] =
                            KeyValue(UpdatedLog(GetOrEmpty(@), Line(msg)))]
        /\ cur' = Outcome(msg, "cache_messages", <<>>, <<>>, FALSE)
        /\ Arrive(shape, ConcCost(shape))
        /\ UNCHANGED <<concvars, gen, user_data, conversations, sess>>

\* handle_group_mention, lines 191-207: the log is stored before the call.
ConcMentionBegin ==
    \E shape \in ConcShapes :
        LET msg == Arrival(shape)
            chat_history == Append(GetOrEmpty(chat_data[msg.chat]), Line(msg))
            request == Request(AnalysisPrompt(chat_history), <<>>,
                               UpstreamOk(<<"Summary: s\nSuggestion: t">>))
        IN
        /\ ConcCanArrive(shape)
        /\ Cardinality(inflight) < MaxInFlight
        /\ Dispatch(msg, conversations) = "handle_group_mention"
        /\ Contains(Lower(Text(msg)), <<MentionBot>>)
        /\ chat_data' = [chat_data EXCEPT ![msg.chat] =
                            KeyValue(UpdatedLog(GetOrEmpty(@), Line(msg)))]
        /\ inflight' = inflight \cup
              {Suspended("handle_group_mention", msg, 0, 0, request)}
        /\ cur' = Outcome(msg, "handle_group_mention", <<request>>, <<>>, FALSE)
        /\ Arrive(shape, ConcCost(shape))
        /\ UNCHANGED <<gen, user_data, conversations, sess, lists, stored,
                       exch, finished, epoch>>

\* handle_group_mention, lines 207-208: the analysis is sent as a reply.
ConcMentionEnd ==
    \E f \in inflight :
        /\ f.handler = "handle_group_mention"
        /\ inflight' = inflight \ {f}
        /\ cur' = Outcome(f.msg, "handle_group_mention", <<f.request>>,
                          <<Sent(f.request.result.value, <<f.msg.message_id>>)>>,
                          FALSE)
        /\ UNCHANGED <<gen, user_data, chat_data, conversations, counts, sess,
                       arrived, lists, stored, exch, finished, epoch>>

\* An update no handler accepts is dropped.
ConcUnhandled ==
    \E shape \in ConcShapes :
        LET msg == Arrival(shape) IN
        /\ ConcCanArrive(shape)
        /\ Dispatch(msg, conversations) = "none"
        /\ cur' = Outcome(msg, "none", <<>>, <<>>, FALSE)
        /\ Arrive(shape, ConcCost(shape))
        /\ UNCHANGED <<concvars, gen, user_data, chat_data, conversations, sess>>

ConcNext ==
    \/ ConcChat
    \/ ConcStop
    \/ ConcExchangeBegin
    \/ ConcExchangeEnd
    \/ ConcCache
    \/ ConcMentionBegin
    \/ ConcMentionEnd
    \/ ConcUnhandled

SpecConc == Init /\ [][ConcNext]_vars

(***************************************************************************)
(* Properties of generate_gemini_response, checked under SpecGen.          *)
(***************************************************************************)
GenDone == gen.pc = "done"

\* The upstream outcomes in which some statement of the try block raises.
RaisingShapes ==
    {"transport", "timeout", "unparsable",
     "no_content", "no_parts", "empty_parts", "no_text"}

\* Status 200 with a non-empty candidate list.
NonEmptyCandidateShapes ==
    {"text", "no_content", "no_parts", "empty_parts", "no_text"}

\* C4: generate_gemini_response never raises: whatever the upstream does
\* (transport failure, timeout, non-200, 200 with an unparsable body, 200
\* with a candidate lacking content/parts/text) the call returns a string,
\* and whenever something raised inside the call the string is the fixed
\* generic apology.
C4_NeverRaises ==
    GenDone =>
        /\ gen.result.kind = "return"
        /\ \A i \in 1..Len(gen.result.value) : gen.result.value[i] \in STRING
        /\ gen.upstream.shape \in RaisingShapes => gen.result.value = APOLOGY

C4_Witness ==
    /\ GenDone
    /\ gen.upstream.shape = "no_text"
    /\ gen.result = Return(APOLOGY)

\* C5 as stated: with status 200 and a non-empty candidate list the call
\* returns exactly the first candidate's text, whatever the shape of the
\* response.
C5_AsStated ==
    (GenDone /\ gen.upstream.shape \in NonEmptyCandidateShapes) =>
        /\ gen.upstream.shape = "text"
        /\ gen.result =
               Return(gen.upstream.json.value.candidates[1].content.parts[1].text)

\* C5 amended: with status 200 and a non-empty candidate list, the call
\* returns exactly the first candidate's first part's text, unmodified, when
\* that candidate has content.parts[0].text; when the first candidate lacks
\* content, parts or text the call returns the generic apology instead.
C5_FirstCandidateVerbatim ==
    GenDone =>
        /\ gen.upstream.shape = "text" =>
               gen.result =
                 Return(gen.upstream.json.value.candidates[1].content.parts[1].text)
        /\ gen.upstream.shape \in NonEmptyCandidateShapes \ {"text"} =>
               gen.result = Return(APOLOGY)

C5_Witness ==
    /\ GenDone
    /\ gen.upstream.shape = "text"
    /\ Len(gen.upstream.json.value.candidates) = 1
    /\ gen.result = Return(<<" ", "ok", " ">>)

\* C6: on a non-200 status the returned string contains the exact status
\* code and the exact raw body, and is not the generic apology.
C6_ApiErrorDetail ==
    (GenDone /\ gen.upstream.shape = "non200") =>
        /\ gen.result.kind = "return"
        /\ Contains(gen.result.value, Digits(gen.upstream.status_code))
        /\ Contains(gen.result.value, gen.upstream.text)
        /\ Len(gen.result.value) >=
               Len(Digits(gen.upstream.status_code)) + Len(gen.upstream.text)
        /\ gen.result.value # APOLOGY

C6_Witness ==
    /\ GenDone
    /\ gen.upstream.shape = "non200"
    /\ gen.upstream.status_code = 404
    /\ gen.upstream.text = <<"n", "o", "p", "e">>
    /\ Contains(gen.result.value, <<"4", "0", "4">>)
    /\ Contains(gen.result.value, <<"n", "o", "p", "e">>)

\* C7: on status 200 with zero candidates (key absent or list empty) the
\* call returns the fixed, non-empty placeholder, not the apology.
C7_EmptyResultPlaceholder ==
    (GenDone /\ gen.upstream.shape \in {"no_key", "empty"}) =>
        /\ gen.result = Return(<<"Sorry, I couldn't generate a response.">>)
        /\ gen.result.value # <<>>
        /\ gen.result.value # APOLOGY

C7_Witness ==
    /\ GenDone
    /\ gen.upstream.shape = "empty"
    /\ gen.upstream.json.value.candidates = <<>>
    /\ gen.result = Return(PLACEHOLDER)

\* C8: the request contents has len(h)+1 entries: entry i carries h[i]'s
\* text under h[i]'s role, in the original order, and the last entry is a
\* user message carrying the prompt.
C8_RequestShape ==
    gen.pc \in {"posting", "done"} =>
        LET h == gen.chat_history
            contents == gen.data.contents
        IN  /\ Len(contents) = Len(h) + 1
            /\ \A i \in 1..Len(h) :
                   /\ contents[i].role = h[i].role
                   /\ contents[i].parts = <<[text |-> h[i].content]>>
            /\ contents[Len(h) + 1] =
                   [role |-> "user", parts |-> <<[text |-> gen.prompt]>>]

\* A history that is neither alternating nor free of duplicates.
C8_Witness ==
    /\ gen.pc = "posting"
    /\ Len(gen.chat_history) = 2
    /\ gen.chat_history[1] = gen.chat_history[2]
    /\ gen.chat_history[1].role = "model"
    /\ Len(gen.data.contents) = 3
    /\ gen.data.contents[1].role = "model"

(***************************************************************************)
(* Properties of the bot, checked under Spec.                              *)
(***************************************************************************)
Min(a, b) == IF a <= b THEN a ELSE b

\* The turns of a sequence of exchanges: user, model, user, model, ...
RECURSIVE TurnsOf(_)
TurnsOf(pairs) ==
    IF pairs = <<>> THEN <<>>
    ELSE <<Turn("user", pairs[1][1]), Turn("model", pairs[1][2])>>
         \o TurnsOf(Tail(pairs))

IsSuffix(s, t) ==
    Len(s) <= Len(t) /\ s = SubSeq(t, Len(t) - Len(s) + 1, Len(t))

ExchangeDone ==
    cur.handler = "handle_ai_response" /\ cur.requests # <<>>

\* C1: while a session is open (the user's latest /chat has not been followed
\* by a /stop), after its k-th exchange the stored history has length
\* min(2k, 6) and is, in order, the user and model turns of the most recent
\* min(k, 3) exchanges.
C1_HistoryWindow ==
    \A u \in Users :
        sess[u].active =>
            LET k == Len(sess[u].pairs) IN
            /\ user_data[u].present
            /\ Len(user_data[u].value) = Min(2 * k, 6)
            /\ user_data[u].value =
                  TurnsOf(SubSeq(sess[u].pairs, k - Min(k, 3) + 1, k))

\* Four exchanges in one session: the first pair has been evicted.
C1_Witness ==
    /\ ExchangeDone
    /\ sess["alice"].active
    /\ Len(sess["alice"].pairs) = 4
    /\ Len(user_data["alice"].value) = 6
    /\ user_data["alice"].value[1] = Turn("user", sess["alice"].pairs[2][1])
    /\ user_data["alice"].value[1] # Turn("user", sess["alice"].pairs[1][1])

\* C2: the stored history always consists of complete pairs: even length,
\* roles alternating user, model, ..., never starting with a model turn; and
\* an exchange whose generation failed still ends the history with the
\* user's message followed by a model turn holding the string that
\* generate_gemini_response returned (the apology, or the API error text).
C2_CompletePairs ==
    /\ \A u \in Users :
          user_data[u].present =>
              LET h == user_data[u].value IN
              /\ Len(h) % 2 = 0
              /\ \A i \in 1..Len(h) :
                    h[i].role = IF i % 2 = 1 THEN "user" ELSE "model"
    /\ ExchangeDone =>
          LET h == user_data[cur.msg.user].value
              up == cur.requests[1].upstream
          IN  /\ user_data[cur.msg.user].present
              /\ Len(h) >= 2
              /\ h[Len(h) - 1] = Turn("user", Text(cur.msg))
              /\ h[Len(h)].role = "model"
              /\ up.shape = "transport" => h[Len(h)].content = APOLOGY
              /\ up.shape = "non200" =>
                    /\ Contains(h[Len(h)].content, Digits(up.status_code))
                    /\ Contains(h[Len(h)].content, up.text)

C2_Witness ==
    /\ ExchangeDone
    /\ cur.requests[1].upstream.shape = "transport"
    /\ user_data["alice"].present
    /\ user_data["alice"].value =
          <<Turn("user", Text(cur.msg)), Turn("model", APOLOGY)>>

\* C3: while the updates of the group chat are non-command text messages,
\* after the N-th of them the group's log holds exactly the last min(N, 10)
\* lines "<sender>: <text>" of those messages, in arrival order.
C3_GroupLogWindow ==
    LET N == Len(arrived) IN
    (N > 0 /\ counts.grp = N) =>
        /\ chat_data["grp"].present
        /\ Len(chat_data["grp"].value) = Min(N, 10)
        /\ chat_data["grp"].value = SubSeq(arrived, N - Min(N, 10) + 1, N)

\* Eleven messages: the first line has been evicted.
C3_Witness ==
    /\ cur.handler = "cache_messages"
    /\ Len(arrived) = 11
    /\ counts.grp = 11
    /\ Len(chat_data["grp"].value) = 10
    /\ chat_data["grp"].value[1] = arrived[2]
    /\ chat_data["grp"].value[10] = Line(cur.msg)

\* C9: right after /stop is processed the history key is absent; right
\* after /chat the history is empty; and every turn stored for a user, and
\* every turn sent to the model as history, comes from an exchange made
\* since the user's latest /chat or /stop, never from before it.
C9_SessionReset ==
    /\ cur.handler = "stop_chat" => ~user_data[cur.msg.user].present
    /\ cur.handler = "chat_with_ai" =>
          user_data[cur.msg.user] = [present |-> TRUE, value |-> <<>>]
    /\ \A u \in Users :
          user_data[u].present =>
              IsSuffix(user_data[u].value, TurnsOf(sess[u].pairs))
    /\ ExchangeDone =>
          LET pairs == sess[cur.msg.user].pairs IN
          IsSuffix(cur.requests[1].chat_history,
                   TurnsOf(SubSeq(pairs, 1, Len(pairs) - 1)))

\* The first exchange of a session that follows a session with exchanges.
C9_Witness ==
    /\ ExchangeDone
    /\ sess["alice"].active
    /\ sess["alice"].ended > 0
    /\ Len(sess["alice"].pairs) = 1
    /\ cur.requests[1].chat_history = <<>>
    /\ Len(user_data["alice"].value) = 2

\* C10 as stated: once a group text message whose text contains the bot's
\* handle (in any case) has been processed, exactly one generation call with
\* the analysis prompt has been made for it and the result has been sent as
\* a reply to that message.
C10_AsStated ==
    (/\ ChatType(cur.msg.chat) = "group"
     /\ Contains(Lower(Text(cur.msg)), <<"@genz_mediator_bot">>)) =>
        /\ Len(cur.requests) = 1
        /\ Len(cur.requests[1].prompt) >= Len(AnalysisTemplate)
        /\ SubSeq(cur.requests[1].prompt, 1, Len(AnalysisTemplate)) = AnalysisTemplate
        /\ cur.replies =
              <<Sent(cur.requests[1].result.value, <<cur.msg.message_id>>)>>

\* The line a reply of the bot would make in the group's log.
BotLine(sent) == <<"Bot", ": ">> \o sent.text

\* C11 as stated: processing a group message appends exactly one line for
\* the message, and one line for each reply the bot sends, to the group's
\* log (trimmed to the last 10), whoever the sender is and whatever handler
\* takes the update.
C11_AsStated ==
    [][cur'.msg.chat = "grp" =>
          GetOrEmpty(chat_data'["grp"]) =
              LastN(GetOrEmpty(chat_data["grp"]) \o <<Line(cur'.msg)>>
                        \o [i \in 1..Len(cur'.replies) |-> BotLine(cur'.replies[i])],
                    10)]_vars

\* C12: when handle_group_mention runs the analysis, the prompt is the fixed
\* template (with "Summary:" and "Suggestion:") followed by the lines of the
\* log as now stored (at most 10, ending with the triggering message, in
\* order, joined by newlines), and the request carries no history: its
\* contents is the single user message holding the prompt.
C12_AnalysisPrompt ==
    (cur.handler = "handle_group_mention" /\ cur.requests # <<>>) =>
        LET r == cur.requests[1]
            log == chat_data[cur.msg.chat].value
        IN  /\ Len(cur.requests) = 1
            /\ chat_data[cur.msg.chat].present
            /\ Len(log) <= 10
            /\ log[Len(log)] = Line(cur.msg)
            /\ r.prompt = AnalysisTemplate \o Join(log)
            /\ Contains(r.prompt, <<"Summary:">>)
            /\ Contains(r.prompt, <<"Suggestion:">>)
            /\ r.chat_history = <<>>
            /\ r.data.contents =
                   <<[role |-> "user", parts |-> <<[text |-> r.prompt]>>]>>

\* Ten lines were stored when the mention arrived: the oldest is left out.
C12_Witness ==
    /\ cur.handler = "handle_group_mention"
    /\ cur.requests # <<>>
    /\ Len(arrived) = 10
    /\ Len(chat_data["grp"].value) = 10
    /\ chat_data["grp"].value[1] = arrived[2]
    /\ chat_data["grp"].value[10] = Line(cur.msg)
    /\ Contains(cur.requests[1].prompt, <<"\n">> \o arrived[10] \o <<"\n">>)
    /\ ~Contains(cur.requests[1].prompt, arrived[1])

\* C13 as stated: no exception leaves a handler, and a handler in which a
\* step failed (a Telegram call raised, or the generation raised) sends a
\* textual reply.
C13_AsStated ==
    /\ ~cur.escaped
    /\ (\/ cur.handler \in {"start", "help_command", "chat_with_ai",
                             "stop_chat", "handle_ai_response"}
        \/ /\ cur.handler = "handle_group_mention"
           /\ Contains(Lower(Text(cur.msg)), <<MentionBot>>))
          => Len(cur.replies) = 1

\* C14: a conversation in CHATTING is still in CHATTING after a text message
\* of its user in its chat, whether the exchange succeeded, the generation
\* failed or an exception left the handler; it leaves CHATTING only when
\* /stop is processed for it.
C14_StaysChatting ==
    [][\A key \in Keys :
          conversations[key] = CHATTING =>
              /\ (cur'.msg.chat = key[1] /\ cur'.msg.user = key[2]
                    /\ cur'.msg.command = "")
                     => (cur'.handler = "handle_ai_response"
                           /\ conversations'[key] = CHATTING)
              /\ conversations'[key] # CHATTING =>
                     (cur'.handler = "stop_chat"
                        /\ cur'.msg.chat = key[1] /\ cur'.msg.user = key[2])]_vars

\* An exchange whose error reply raised too: the exception left the handler.
C14_Witness ==
    /\ cur.handler = "handle_ai_response"
    /\ cur.escaped
    /\ cur.msg.chat = "dm"
    /\ conversations[<<"dm", "alice">>] = CHATTING

\* C15 as stated: processing an update of one chat leaves the other chat's
\* log unchanged, and leaves unchanged the history of every user who has a
\* session in the other chat.
C15_AsStated ==
    [][\A a \in Chats, b \in Chats :
          (a # b /\ cur'.msg.chat = a) =>
              /\ chat_data'[b] = chat_data[b]
              /\ \A u \in Users :
                    conversations[<<b, u>>] = CHATTING =>
                        user_data'[u] = user_data[u]]_vars

\* handle_ai_response ended in its except branch: the error text was sent,
\* or sending it raised and the exception left the handler.
ErrorEnded(o) ==
    /\ o.handler = "handle_ai_response"
    /\ \/ o.escaped
       \/ o.replies # <<>> /\ o.replies[1].text = ErrorOccurred

\* C19 as stated: whenever handle_ai_response ends in its exception branch,
\* the stored history is the same as before the message was handled.
C19_AsStated ==
    [][ErrorEnded(cur') => user_data' = user_data]_vars

\* C19 amended: when handle_ai_response ends in its exception branch, the
\* stored history is the same as before if the step that raised came before
\* the generation call (reading the text, the typing action); if sending the
\* reply raised, the history already holds the exchange: the user's message
\* and the model's response appended, trimmed to the last 6.
C19_ErrorBranchHistory ==
    [][ErrorEnded(cur') =>
          LET u == cur'.msg.user IN
          IF cur'.requests = <<>>
          THEN user_data' = user_data
          ELSE /\ \A v \in Users \ {u} : user_data'[v] = user_data[v]
               /\ user_data'[u].present
               /\ user_data'[u].value =
                     LastN(GetOrEmpty(user_data[u])
                               \o <<Turn("user", Text(cur'.msg)),
                                    Turn("model", cur'.requests[1].result.value)>>,
                           6)]_vars

\* The reply raised after the exchange was stored; the user is told of an error.
C19_Witness ==
    /\ ErrorEnded(cur)
    /\ cur.replies = <<Sent(ErrorOccurred, <<>>)>>
    /\ cur.requests # <<>>
    /\ Len(user_data[cur.msg.user].value) = 2
    /\ user_data[cur.msg.user].value[1] = Turn("user", Text(cur.msg))
    /\ user_data[cur.msg.user].value[2] =
          Turn("model", <<"re">> \o cur.msg.body)

\* C20: the contents of every generation request made for an exchange
\* alternates user, model, ..., user: it starts with a user message, ends
\* with the new prompt as a user message, has no two adjacent messages of one
\* role, and has at most 7 messages.
C20_AlternatingRequest ==
    ExchangeDone =>
        LET contents == cur.requests[1].data.contents
            n == Len(contents)
        IN  /\ n >= 1
            /\ n <= 7
            /\ contents[1].role = "user"
            /\ contents[n] =
                   [role |-> "user", parts |-> <<[text |-> Text(cur.msg)]>>]
            /\ \A i \in 1..(n - 1) : contents[i].role # contents[i + 1].role
            /\ \A i \in 1..n : contents[i].role \in {"user", "model"}

\* A request made with a full history: six turns and the prompt.
C20_Witness ==
    /\ ExchangeDone
    /\ Len(cur.requests[1].data.contents) = 7
    /\ cur.requests[1].data.contents[6].role = "model"
    /\ cur.requests[1].data.contents[7].role = "user"

(***************************************************************************)
(* Properties of the handlers in flight, checked under SpecConc.           *)
(***************************************************************************)
\* The history stored for a user, as user_data holds it.
StoredHistory(u) ==
    IF stored[u] = 0 THEN KeyAbsent ELSE KeyValue(lists[stored[u]])

\* The (message, response) pair of the i-th exchange started.
PairOf(i) == <<Text(exch[i].msg), <<"re">> \o exch[i].msg.body>>

\* The exchanges started in the session that is open now.
SessionExchanges == {i \in 1..Len(exch) : exch[i].epoch = epoch}

\* The exchanges completed since the latest /chat or /stop, in completion order.
CompletedNow ==
    LET later == SelectSeq(finished, LAMBDA e : e.at = epoch)
    IN  [j \in 1..Len(later) |-> later[j].i]

\* A session is open, every exchange started in it has completed, and no
\* exchange of an earlier session completed in it.
SessionSettled ==
    /\ sess["alice"].active
    /\ \A f \in inflight : f.handler # "handle_ai_response"
    /\ \A j \in 1..Len(CompletedNow) : CompletedNow[j] \in SessionExchanges
    /\ Len(CompletedNow) = Cardinality(SessionExchanges)

\* The pairs of the last min(k, 3) exchanges completed in the session.
LastCompletedTurns ==
    LET k == Len(CompletedNow) IN
    TurnsOf([j \in 1..Min(k, 3) |-> PairOf(CompletedNow[k - Min(k, 3) + j])])

\* C16: whatever the interleaving, the stored history never has more than
\* 6 entries and the stored group log never more than 10; each store keeps
\* the most recent entries: the history stored by a completing exchange is
\* the last 6 turns of the list it appended to, ending with its own pair, and
\* the log stored for a group message is the last 10 lines ending with that
\* message's line.
C16_BoundedBuffers ==
    [][/\ \A u \in Users : stored'[u] # 0 => Len(lists'[stored'[u]]) <= 6
       /\ \A c \in Chats : Len(chat_data'[c].value) <= 10
       /\ (cur'.handler = "handle_ai_response" /\ cur'.replies # <<>>) =>
             LET f == CHOOSE g \in inflight : g \notin inflight'
                 new == lists'[stored'[f.msg.user]]
                 grown == lists[f.ref] \o <<Turn("user", Text(f.msg)),
                                            Turn("model", f.request.result.value)>>
             IN  /\ lists'[f.ref] = grown
                 /\ IsSuffix(new, grown)
                 /\ Len(new) = Min(Len(grown), 6)
       /\ (cur'.msg.chat = "grp" /\ cur'.replies = <<>>) =>
             LET new == chat_data'["grp"].value
                 grown == Append(GetOrEmpty(chat_data["grp"]), Line(cur'.msg))
             IN  /\ IsSuffix(new, grown)
                 /\ Len(new) = Min(Len(grown), 10)]_vars

\* Four exchanges of a session overlapped and completed out of order: the
\* history is full and the oldest pair is gone.
C16_Witness ==
    /\ SessionSettled
    /\ Len(CompletedNow) = 4
    /\ CompletedNow[1] # 1
    /\ Len(lists[stored["alice"]]) = 6
    /\ Len(lists[exch[CompletedNow[4]].ref]) >= 8

====
